---- MODULE Spec2Model ----
(***************************************************************************)
(* A model of adafruit_lsm9ds0.py: the LSM9DS0 sensor core (class LSM9DS0) *)
(* and its two transport bindings (LSM9DS0_I2C, LSM9DS0_SPI).              *)
(*                                                                         *)
(* The model follows Python's evaluation rules statement by statement.     *)
(* A frame's pc is the source line it executes next.  A statement that     *)
(* reads a module-level name the module never binds raises NameError at    *)
(* that point (Resolves), an attribute never assigned raises               *)
(* AttributeError, and an exception unwinds every frame: the source holds  *)
(* no try/except.  The bus devices, the device registers behind them and   *)
(* the caller are the environment: a device operation may fail at any      *)
(* call, and a burst read delivers any sample of the bounded sample sets.  *)
(*                                                                         *)
(* Python allocates the instance before __init__ runs and binds methods    *)
(* through the class, so once the sub-class constructor has assigned the   *)
(* two device handles the caller may invoke any method on the instance,    *)
(* whatever LSM9DS0.__init__ did afterwards.                               *)
(*                                                                         *)
(* Spec is one instance driven through its public methods.  SpecTransport  *)
(* drives the three primitives of a binding directly, with addresses the   *)
(* sensor core never passes.  SpecTwoInstances adds a second instance,     *)
(* which shares the class-level _BUFFER.                                   *)
(*                                                                         *)
(* Scale factors are floats in the source; the model holds them as         *)
(* integers in fixed units: accel mg/LSB * 1000, mag mgauss/LSB * 100,     *)
(* gyro dps/digit * 100000.                                                *)
(***************************************************************************)
EXTENDS Integers, Sequences, FiniteSets, TLC

\* ---------------------------------------------------------------- bounds

\* Top-level calls the caller makes on one instance after constructing it.
MaxCalls == 2

\* ------------------------------------------- module constants (lines 41-107)

_LSM9DS0_XM_ID == 73
_LSM9DS0_G_ID == 212
_LSM9DS0_ACCEL_MG_LSB_2G == 61
_LSM9DS0_ACCEL_MG_LSB_4G == 122
_LSM9DS0_ACCEL_MG_LSB_6G == 183
_LSM9DS0_ACCEL_MG_LSB_8G == 244
_LSM9DS0_ACCEL_MG_LSB_16G == 732
_LSM9DS0_MAG_MGAUSS_2GAUSS == 8
_LSM9DS0_MAG_MGAUSS_4GAUSS == 16
_LSM9DS0_MAG_MGAUSS_8GAUSS == 32
_LSM9DS0_MAG_MGAUSS_12GAUSS == 48
_LSM9DS0_GYRO_DPS_DIGIT_245DPS == 875
_LSM9DS0_GYRO_DPS_DIGIT_500DPS == 1750
_LSM9DS0_GYRO_DPS_DIGIT_2000DPS == 7000
_LSM9DS0_TEMP_LSB_DEGREE_CELSIUS == 8
_LSM9DS0_REGISTER_WHO_AM_I_G == 15
_LSM9DS0_REGISTER_CTRL_REG1_G == 32
_LSM9DS0_REGISTER_CTRL_REG4_G == 35
_LSM9DS0_REGISTER_OUT_X_L_G == 40
_LSM9DS0_REGISTER_TEMP_OUT_L_XM == 5
_LSM9DS0_REGISTER_OUT_X_L_M == 8
_LSM9DS0_REGISTER_WHO_AM_I_XM == 15
_LSM9DS0_REGISTER_CTRL_REG1_XM == 32
_LSM9DS0_REGISTER_CTRL_REG2_XM == 33
_LSM9DS0_REGISTER_CTRL_REG5_XM == 36
_LSM9DS0_REGISTER_CTRL_REG6_XM == 37
_LSM9DS0_REGISTER_CTRL_REG7_XM == 38
_LSM9DS0_REGISTER_OUT_X_L_A == 40
_GYROTYPE == TRUE
_XMTYPE == FALSE

ACCELRANGE_2G == 0
ACCELRANGE_4G == 8
ACCELRANGE_6G == 16
ACCELRANGE_8G == 24
ACCELRANGE_16G == 32
MAGGAIN_2GAUSS == 0
MAGGAIN_4GAUSS == 32
MAGGAIN_8GAUSS == 64
MAGGAIN_12GAUSS == 96
GYROSCALE_245DPS == 0
GYROSCALE_500DPS == 16
GYROSCALE_2000DPS == 32

\* The names the module binds at top level (lines 34-107, and const, which
\* the CircuitPython compiler provides).  Every other global name a
\* statement reads is unbound.
ModuleGlobals ==
    { "time", "i2c_device", "spi_device", "const",
      "_LSM9DS0_ADDRESS_ACCELMAG", "_LSM9DS0_ADDRESS_GYRO",
      "_LSM9DS0_XM_ID", "_LSM9DS0_G_ID",
      "_LSM9DS0_ACCEL_MG_LSB_2G", "_LSM9DS0_ACCEL_MG_LSB_4G",
      "_LSM9DS0_ACCEL_MG_LSB_6G", "_LSM9DS0_ACCEL_MG_LSB_8G",
      "_LSM9DS0_ACCEL_MG_LSB_16G",
      "_LSM9DS0_MAG_MGAUSS_2GAUSS", "_LSM9DS0_MAG_MGAUSS_4GAUSS",
      "_LSM9DS0_MAG_MGAUSS_8GAUSS", "_LSM9DS0_MAG_MGAUSS_12GAUSS",
      "_LSM9DS0_GYRO_DPS_DIGIT_245DPS", "_LSM9DS0_GYRO_DPS_DIGIT_500DPS",
      "_LSM9DS0_GYRO_DPS_DIGIT_2000DPS", "_LSM9DS0_TEMP_LSB_DEGREE_CELSIUS",
      "_LSM9DS0_REGISTER_WHO_AM_I_G", "_LSM9DS0_REGISTER_CTRL_REG1_G",
      "_LSM9DS0_REGISTER_CTRL_REG3_G", "_LSM9DS0_REGISTER_CTRL_REG4_G",
      "_LSM9DS0_REGISTER_OUT_X_L_G", "_LSM9DS0_REGISTER_TEMP_OUT_L_XM",
      "_LSM9DS0_REGISTER_OUT_X_L_M", "_LSM9DS0_REGISTER_WHO_AM_I_XM",
      "_LSM9DS0_REGISTER_CTRL_REG1_XM", "_LSM9DS0_REGISTER_CTRL_REG2_XM",
      "_LSM9DS0_REGISTER_CTRL_REG5_XM", "_LSM9DS0_REGISTER_CTRL_REG6_XM",
      "_LSM9DS0_REGISTER_CTRL_REG7_XM", "_LSM9DS0_REGISTER_OUT_X_L_A",
      "_GYROTYPE", "_XMTYPE", "_SENSORS_GRAVITY_STANDARD",
      "ACCELRANGE_2G", "ACCELRANGE_4G", "ACCELRANGE_6G", "ACCELRANGE_8G",
      "ACCELRANGE_16G", "MAGGAIN_2GAUSS", "MAGGAIN_4GAUSS", "MAGGAIN_8GAUSS",
      "MAGGAIN_12GAUSS", "GYROSCALE_245DPS", "GYROSCALE_500DPS",
      "GYROSCALE_2000DPS", "LSM9DS0", "LSM9DS0_I2C", "LSM9DS0_SPI" }

\* Evaluating an expression that reads the global names ns raises NameError
\* unless the module binds every one of them.
Resolves(ns) == ns \subseteq ModuleGlobals

\* ------------------------------------------------------- integer bit logic

RECURSIVE BitAnd(_, _)
\* Python's a & b on non-negative integers.
BitAnd(a, b) ==
    IF a = 0 \/ b = 0 THEN 0
    ELSE (a % 2) * (b % 2) + 2 * BitAnd(a \div 2, b \div 2)

RECURSIVE BitOr(_, _)
\* Python's a | b on non-negative integers.
BitOr(a, b) ==
    IF a = 0 THEN b
    ELSE IF b = 0 THEN a
    ELSE (IF a % 2 = 1 \/ b % 2 = 1 THEN 1 ELSE 0) + 2 * BitOr(a \div 2, b \div 2)

\* (reg & ~mask) & 0xFF for an 8-bit mask (lines 159, 189, 215): of the low
\* eight bits, ~mask keeps exactly those outside mask.
ClearField(reg, mask) == BitAnd(BitAnd(reg, 255 - mask), 255)

\* Word16 with the byte order swapped.
Word16BigEndian(lo, hi) == BitAnd(BitOr(lo * 256, hi), 65535)

\* ((hi << 8) | lo) & 0xFFFF, lines 241-243.
Word16(lo, hi) == BitAnd(BitOr(hi * 256, lo), 65535)

\* ------------------------------------------------------------ environment

\* The two sub-devices behind the handles _gyro_device and _xm_device.
Devices == {"gyro", "xm"}

\* The device registers the driver reads back: the identity and the control
\* registers of each sub-device.
RegKeys ==
    { <<"xm", _LSM9DS0_REGISTER_WHO_AM_I_XM>>, <<"xm", _LSM9DS0_REGISTER_CTRL_REG1_XM>>,
      <<"xm", _LSM9DS0_REGISTER_CTRL_REG2_XM>>, <<"xm", _LSM9DS0_REGISTER_CTRL_REG5_XM>>,
      <<"xm", _LSM9DS0_REGISTER_CTRL_REG6_XM>>, <<"xm", _LSM9DS0_REGISTER_CTRL_REG7_XM>>,
      <<"gyro", _LSM9DS0_REGISTER_WHO_AM_I_G>>, <<"gyro", _LSM9DS0_REGISTER_CTRL_REG1_G>>,
      <<"gyro", _LSM9DS0_REGISTER_CTRL_REG4_G>> }

\* The identity registers are read-only.
IdKeys == { <<"xm", _LSM9DS0_REGISTER_WHO_AM_I_XM>>, <<"gyro", _LSM9DS0_REGISTER_WHO_AM_I_G>> }

\* What the identity registers of the wired part may hold: the LSM9DS0's
\* values, or another part's / a floating bus.
XmIds == {_LSM9DS0_XM_ID, 0}
GyroIds == {_LSM9DS0_G_ID, 255}

\* What every control register holds when the driver is constructed.
PowerOnBytes == {0, 255}

\* The samples a burst read of the output registers may deliver: byte
\* patterns with unequal low and high bytes, the extremes and zero.
Samples6 ==
    { <<52, 18, 255, 255, 0, 0>>, <<0, 128, 1, 0, 255, 0>>, <<255, 255, 52, 18, 200, 0>> }
Samples2 == { <<52, 18>>, <<200, 0>>, <<255, 255>> }

\* The values a caller passes to a range setter: every enumerated value of
\* the three settings, in-field values no setting enumerates (0x30), and
\* values with bits outside every field.
SetterInputs == {0, 8, 16, 24, 32, 48, 64, 96, 255}

\* ------------------------------------------------------------------ state

VARIABLES
    variant,    \* the class instantiated: "none", "I2C" or "SPI"
    state,      \* SensorCore: "Uninitialized", "Failed" or "Ready"
    mem,        \* the device registers, by <<device, register address>>
    cache,      \* _accel_mg_lsb, _mag_mgauss_lsb, _gyro_dps_digit: <<>> while
                \* the attribute is not assigned, else <<value>>
    BUFFER,     \* LSM9DS0._BUFFER, the class-level bytearray(6)
    held,       \* the device whose bus acquisition is in scope, or "none"
    stack,      \* the frames of the methods running, innermost last
    call,       \* the transport primitive running, or NoCall
    ret,        \* the value the last callee returned to its caller
    log,        \* the device operations of the current top-level call
    outcome,    \* how the last top-level call ended
    prev,       \* the call that ended before the current/last one
    pre,        \* the registers and the cache as the current/last call found them
    calls       \* top-level calls made on the instance

vars ==
    << variant, state, mem, cache, BUFFER, held, stack, call, ret, log,
       outcome, prev, pre, calls >>

NoCall ==
    [fn |-> "none", sensor_type |-> FALSE, address |-> 0, count |-> 0, val |-> 0, step |-> 0]

NoOutcome == [fn |-> "none", arg |-> <<>>, kind |-> "none", value |-> <<>>]

Init ==
    /\ variant = "none"
    /\ state = "Uninitialized"
    /\ \E xm \in XmIds, g \in GyroIds, b \in PowerOnBytes :
         mem = [k \in RegKeys |->
                  IF k = <<"xm", _LSM9DS0_REGISTER_WHO_AM_I_XM>> THEN xm
                  ELSE IF k = <<"gyro", _LSM9DS0_REGISTER_WHO_AM_I_G>> THEN g
                  ELSE b]
    /\ cache = [accel |-> <<>>, mag |-> <<>>, gyro |-> <<>>]
    /\ BUFFER = <<0, 0, 0, 0, 0, 0>>
    /\ held = "none"
    /\ stack = <<>>
    /\ call = NoCall
    /\ ret = <<>>
    /\ log = <<>>
    /\ outcome = NoOutcome
    /\ prev = NoOutcome
    /\ pre = [mem |-> mem, cache |-> cache]
    /\ calls = 0

\* What the next call remembers of the call before it.
Summary(o) == [fn |-> o.fn, arg |-> o.arg, kind |-> o.kind, value |-> <<>>]

\* ----------------------------------------------------- frames and control

Frame(fn, pc, val) == [fn |-> fn, pc |-> pc, val |-> val, reg |-> 0]

Top == stack[Len(stack)]

\* The method fn is the innermost frame and no primitive runs under it.
Running(fn) == stack # <<>> /\ Top.fn = fn /\ call.fn = "none"

\* The innermost frame moves to line pc.
Goto(pc) ==
    /\ stack' = [stack EXCEPT ![Len(stack)].pc = pc]
    /\ UNCHANGED <<call, ret, outcome, state>>

\* The innermost frame calls the transport primitive c and resumes at pc.
Invoke(c, pc, reg) ==
    /\ stack' = [stack EXCEPT ![Len(stack)] = [@ EXCEPT !.pc = pc, !.reg = reg]]
    /\ call' = c
    /\ UNCHANGED <<ret, outcome, state>>

\* The innermost frame calls the method fn of the same object, resumes at pc.
CallMethod(fn, start, val, pc) ==
    /\ stack' = Append([stack EXCEPT ![Len(stack)].pc = pc], Frame(fn, start, val))
    /\ UNCHANGED <<call, ret, outcome, state>>

\* The innermost frame returns value.  The outermost frame's return ends the
\* top-level call; LSM9DS0.__init__ returning is the construction's success.
Return(value) ==
    /\ stack' = SubSeq(stack, 1, Len(stack) - 1)
    /\ ret' = IF Len(stack) = 1 THEN <<>> ELSE value
    /\ outcome' = IF Len(stack) = 1
                  THEN [fn |-> Top.fn, arg |-> Top.val, kind |-> "ok", value |-> value]
                  ELSE outcome
    /\ state' = IF Len(stack) = 1 /\ Top.fn = "__init__" THEN "Ready" ELSE state
    /\ call' = NoCall

\* Raise that leaves a construction it ends marked as done.
RaiseLeavesReady(kind) ==
    /\ stack' = <<>>
    /\ ret' = <<>>
    /\ outcome' = [fn |-> stack[1].fn, arg |-> stack[1].val, kind |-> kind, value |-> <<>>]
    /\ state' = IF stack[1].fn = "__init__" THEN "Ready" ELSE state
    /\ call' = NoCall

\* An exception of the given kind is raised in the innermost frame.  No
\* frame catches it: it ends the top-level call, and a construction with it.
Raise(kind) ==
    /\ stack' = <<>>
    /\ ret' = <<>>
    /\ outcome' = [fn |-> stack[1].fn, arg |-> stack[1].val, kind |-> kind, value |-> <<>>]
    /\ state' = IF stack[1].fn = "__init__" THEN "Failed" ELSE state
    /\ call' = NoCall

\* ------------------------------------------------- the bus and the devices

\* The register a transaction's address byte selects.  On the I2C variant bit
\* 7 of the sub-address is the auto-increment flag; on the SPI variant bit 7
\* is the read/write direction and bit 6 the auto-increment flag.
RegisterOf(byte) == IF variant = "SPI" THEN BitAnd(byte, 63) ELSE BitAnd(byte, 127)

\* Whether the device takes a transaction that starts with this address byte
\* as a read (SPI: bit 7 set) or as a write (SPI: bit 7 clear).  An I2C
\* transfer carries its direction outside the address byte.
TakenAsRead(byte) == variant = "SPI" => BitAnd(byte, 128) = 128
TakenAsWrite(byte) == variant = "SPI" => BitAnd(byte, 128) = 0

\* MemAfterWrite of a device that clears a register when it is addressed for
\* a read.
MemAfterWriteClearsOnRead(device, bytes) ==
    IF <<device, RegisterOf(bytes[1])>> \in RegKeys \ IdKeys
    THEN [mem EXCEPT ![<<device, RegisterOf(bytes[1])>>] =
                         IF Len(bytes) = 2 THEN bytes[2] ELSE 0]
    ELSE mem

\* The device registers after the device received bytes in one write.
MemAfterWrite(device, bytes) ==
    IF /\ Len(bytes) = 2
       /\ TakenAsWrite(bytes[1])
       /\ <<device, RegisterOf(bytes[1])>> \in RegKeys \ IdKeys
    THEN [mem EXCEPT ![<<device, RegisterOf(bytes[1])>>] = bytes[2]]
    ELSE mem

\* The address byte of the write that opened the current transaction.
Pointer == log[Len(log)].data[1]

\* What a read of n bytes may deliver: one control or identity register as
\* the device holds it, or a fresh sample of the output registers.
DeviceData(device, n) ==
    IF n = 1
    THEN { << IF TakenAsRead(Pointer) /\ <<device, RegisterOf(Pointer)>> \in RegKeys
              THEN mem[<<device, RegisterOf(Pointer)>>]
              ELSE 0 >> }
    ELSE IF n = 2 THEN Samples2
    ELSE Samples6

\* `with device:` entered: the bus acquisition is in scope.
WithEnter(device) == device

\* `with device:` left by falling off the end of its block.
WithExit(h) == "none"

\* An acquisition that an exception leaves in scope.
WithExitLeak(h) == h

\* `with device:` left by an exception raised inside its block.
WithExitOnError(h) == "none"

\* The handle a primitive picks for a sensor-type tag (362-365 and alike).
Device(sensor_type) == IF sensor_type = _GYROTYPE THEN "gyro" ELSE "xm"

\* readinto(buffer, end=n): the first n bytes of the buffer are replaced.
Filled(buf, data) == [i \in 1..Len(buf) |-> IF i <= Len(data) THEN data[i] ELSE buf[i]]

\* The primitive moves to its line `step`.
Continue(step) ==
    /\ call' = [call EXCEPT !.step = step]
    /\ UNCHANGED <<stack, ret, outcome, state>>

\* The primitive returns value to the method that called it.
PrimReturn(value) ==
    /\ call' = NoCall
    /\ ret' = value
    /\ UNCHANGED <<stack, outcome, state>>

\* A bus failure: the OSError the bus device raises (the TransportError).
TransportError == "OSError"

\* device.configure(baudrate=200000, phase=0, polarity=0), then line `next`.
DeviceConfigure(device, next) ==
    \E ok \in BOOLEAN :
        /\ log' = Append(log, [op |-> "configure", dev |-> device, data |-> <<>>, ok |-> ok])
        /\ UNCHANGED <<BUFFER, mem>>
        /\ IF ok THEN held' = held /\ Continue(next)
                 ELSE held' = WithExitOnError(held) /\ Raise(TransportError)

\* DeviceWrite that tries a failed write again.
DeviceWriteRetry(device, buf, n, next) ==
    \E ok \in BOOLEAN :
        /\ BUFFER' = buf
        /\ log' = Append(log, [op |-> "write", dev |-> device, data |-> SubSeq(buf, 1, n), ok |-> ok])
        /\ mem' = IF ok THEN MemAfterWrite(device, SubSeq(buf, 1, n)) ELSE mem
        /\ held' = held
        /\ Continue(IF ok THEN next ELSE call.step)

\* self._BUFFER[...] = ...; device.write(self._BUFFER, end=n), then line `next`.
DeviceWrite(device, buf, n, next) ==
    \E ok \in BOOLEAN :
        /\ BUFFER' = buf
        /\ log' = Append(log, [op |-> "write", dev |-> device, data |-> SubSeq(buf, 1, n), ok |-> ok])
        /\ mem' = IF ok THEN MemAfterWrite(device, SubSeq(buf, 1, n)) ELSE mem
        /\ IF ok THEN held' = held /\ Continue(next)
                 ELSE held' = WithExitOnError(held) /\ Raise(TransportError)

\* device.readinto(self._BUFFER, end=n), then line `next`.
DeviceReadinto(device, n, next) ==
    \E data \in DeviceData(device, n) :
        \/ /\ BUFFER' = Filled(BUFFER, data)
           /\ log' = Append(log, [op |-> "readinto", dev |-> device, data |-> data, ok |-> TRUE])
           /\ mem' = mem
           /\ held' = held
           /\ Continue(next)
        \/ /\ BUFFER' = BUFFER
           /\ log' = Append(log, [op |-> "readinto", dev |-> device, data |-> <<>>, ok |-> FALSE])
           /\ mem' = mem
           /\ held' = WithExitOnError(held)
           /\ Raise(TransportError)

\* ------------------------------------------------ LSM9DS0_I2C, lines 354-390

I2C_read_u8 ==
    /\ variant = "I2C"
    /\ call.fn = "_read_u8"
    /\ LET device == Device(call.sensor_type) IN
       CASE call.step = 362 ->
              /\ held' = WithEnter(device)
              /\ Continue(367)
              /\ UNCHANGED <<BUFFER, log, mem>>
         [] call.step = 367 ->
              DeviceWrite(device, [BUFFER EXCEPT ![1] = BitAnd(call.address, 255)], 1, 369)
         [] call.step = 369 ->
              DeviceReadinto(device, 1, 370)
         [] call.step = 370 ->
              /\ held' = WithExit(held)
              /\ PrimReturn(<<BUFFER[1]>>)
              /\ UNCHANGED <<BUFFER, log, mem>>
    /\ UNCHANGED <<variant, cache, prev, pre, calls>>

I2C_read_bytes ==
    /\ variant = "I2C"
    /\ call.fn = "_read_bytes"
    /\ LET device == Device(call.sensor_type) IN
       CASE call.step = 373 ->
              /\ held' = WithEnter(device)
              /\ Continue(378)
              /\ UNCHANGED <<BUFFER, log, mem>>
         [] call.step = 378 ->
              DeviceWrite(device, [BUFFER EXCEPT ![1] = BitAnd(call.address, 255)], 1, 380)
         [] call.step = 380 ->
              DeviceReadinto(device, call.count, 381)
         [] call.step = 381 ->
              /\ held' = WithExit(held)
              /\ PrimReturn(<<>>)
              /\ UNCHANGED <<BUFFER, log, mem>>
    /\ UNCHANGED <<variant, cache, prev, pre, calls>>

I2C_write_u8 ==
    /\ variant = "I2C"
    /\ call.fn = "_write_u8"
    /\ LET device == Device(call.sensor_type) IN
       CASE call.step = 383 ->
              /\ held' = WithEnter(device)
              /\ Continue(388)
              /\ UNCHANGED <<BUFFER, log, mem>>
         [] call.step = 388 ->
              DeviceWrite(device,
                          [BUFFER EXCEPT ![1] = BitAnd(call.address, 255),
                                         ![2] = BitAnd(call.val, 255)],
                          2, 391)
         [] call.step = 391 ->
              /\ held' = WithExit(held)
              /\ PrimReturn(<<>>)
              /\ UNCHANGED <<BUFFER, log, mem>>
    /\ UNCHANGED <<variant, cache, prev, pre, calls>>

\* ------------------------------------------------ LSM9DS0_SPI, lines 393-432

SPI_read_u8 ==
    /\ variant = "SPI"
    /\ call.fn = "_read_u8"
    /\ LET device == Device(call.sensor_type) IN
       CASE call.step = 401 ->
              /\ held' = WithEnter(device)
              /\ Continue(406)
              /\ UNCHANGED <<BUFFER, log, mem>>
         [] call.step = 406 ->
              DeviceConfigure(device, 407)
         [] call.step = 407 ->
              DeviceWrite(device,
                          [BUFFER EXCEPT ![1] = BitAnd(BitOr(call.address, 128), 255)], 1, 409)
         [] call.step = 409 ->
              DeviceReadinto(device, 1, 410)
         [] call.step = 410 ->
              /\ held' = WithExit(held)
              /\ PrimReturn(<<BUFFER[1]>>)
              /\ UNCHANGED <<BUFFER, log, mem>>
    /\ UNCHANGED <<variant, cache, prev, pre, calls>>

SPI_read_bytes ==
    /\ variant = "SPI"
    /\ call.fn = "_read_bytes"
    /\ LET device == Device(call.sensor_type) IN
       CASE call.step = 413 ->
              /\ held' = WithEnter(device)
              /\ Continue(418)
              /\ UNCHANGED <<BUFFER, log, mem>>
         [] call.step = 418 ->
              DeviceConfigure(device, 419)
         [] call.step = 419 ->
              DeviceWrite(device,
                          [BUFFER EXCEPT ![1] = BitAnd(BitOr(call.address, 128), 255)], 1, 421)
         [] call.step = 421 ->
              DeviceReadinto(device, call.count, 422)
         [] call.step = 422 ->
              /\ held' = WithExit(held)
              /\ PrimReturn(<<>>)
              /\ UNCHANGED <<BUFFER, log, mem>>
    /\ UNCHANGED <<variant, cache, prev, pre, calls>>

\* SPI_write_u8 that sends the address as given, bit 7 included.
SPI_write_u8_address_kept ==
    /\ variant = "SPI"
    /\ call.fn = "_write_u8"
    /\ LET device == Device(call.sensor_type) IN
       CASE call.step = 424 ->
              /\ held' = WithEnter(device)
              /\ Continue(429)
              /\ UNCHANGED <<BUFFER, log, mem>>
         [] call.step = 429 ->
              DeviceConfigure(device, 430)
         [] call.step = 430 ->
              DeviceWrite(device,
                          [BUFFER EXCEPT ![1] = BitAnd(call.address, 255),
                                         ![2] = BitAnd(call.val, 255)],
                          2, 433)
         [] call.step = 433 ->
              /\ held' = WithExit(held)
              /\ PrimReturn(<<>>)
              /\ UNCHANGED <<BUFFER, log, mem>>
    /\ UNCHANGED <<variant, cache, prev, pre, calls>>

SPI_write_u8 ==
    /\ variant = "SPI"
    /\ call.fn = "_write_u8"
    /\ LET device == Device(call.sensor_type) IN
       CASE call.step = 424 ->
              /\ held' = WithEnter(device)
              /\ Continue(429)
              /\ UNCHANGED <<BUFFER, log, mem>>
         [] call.step = 429 ->
              DeviceConfigure(device, 430)
         [] call.step = 430 ->
              DeviceWrite(device,
                          [BUFFER EXCEPT ![1] = BitAnd(BitAnd(call.address, 127), 255),
                                         ![2] = BitAnd(call.val, 255)],
                          2, 433)
         [] call.step = 433 ->
              /\ held' = WithExit(held)
              /\ PrimReturn(<<>>)
              /\ UNCHANGED <<BUFFER, log, mem>>
    /\ UNCHANGED <<variant, cache, prev, pre, calls>>

\* The primitive a method calls: the sub-class's override, entered at its
\* first line.
PrimEntry ==
    [I2C |-> [_read_u8 |-> 362, _read_bytes |-> 373, _write_u8 |-> 383],
     SPI |-> [_read_u8 |-> 401, _read_bytes |-> 413, _write_u8 |-> 424]]

_read_u8(sensor_type, address) ==
    [fn |-> "_read_u8", sensor_type |-> sensor_type, address |-> address,
     count |-> 1, val |-> 0, step |-> PrimEntry[variant]._read_u8]

_read_bytes(sensor_type, address, count) ==
    [fn |-> "_read_bytes", sensor_type |-> sensor_type, address |-> address,
     count |-> count, val |-> 0, step |-> PrimEntry[variant]._read_bytes]

_write_u8(sensor_type, address, val) ==
    [fn |-> "_write_u8", sensor_type |-> sensor_type, address |-> address,
     count |-> 0, val |-> val, step |-> PrimEntry[variant]._write_u8]

\* --------------------------------------------------- LSM9DS0, lines 110-351

\* The value of a global name the module does not bind: there is none.
Unbound(name) == CHOOSE v \in {} : TRUE

RECURSIVE IfChain(_, _, _)
\* An if/elif chain `if val == <name>: attr = <factor>` with no else branch,
\* from its i-th arm on: the factor assigned, a fall through every arm, or the
\* NameError of the first comparison that reads an unbound name.
IfChain(val, arms, i) ==
    IF i > Len(arms) THEN [kind |-> "pass", factor |-> <<>>]
    ELSE IF ~Resolves({arms[i][1]}) THEN [kind |-> "NameError", factor |-> <<>>]
    ELSE IF val = Unbound(arms[i][1]) THEN [kind |-> "assign", factor |-> <<arms[i][2]>>]
    ELSE IfChain(val, arms, i + 1)

\* The statement after an if/elif chain that assigns the attribute attr.
AfterChain(chain, attr) ==
    IF chain.kind = "NameError"
    THEN Raise("NameError") /\ cache' = cache
    ELSE /\ Return(<<>>)
         /\ cache' = IF chain.kind = "assign" THEN [cache EXCEPT ![attr] = chain.factor]
                     ELSE cache

\* Lines 117-140.
LSM9DS0_init ==
    /\ Running("__init__")
    /\ CASE Top.pc = 119 ->
              /\ IF Resolves({"_XGTYPE", "_LSM9DS0_REGISTER_CTRL_REG8"})
                 THEN Invoke(_write_u8(Unbound("_XGTYPE"),
                                       Unbound("_LSM9DS0_REGISTER_CTRL_REG8"), 5), 121, 0)
                 ELSE Raise("NameError")
              /\ log' = log
         [] Top.pc = 121 ->
              /\ IF Resolves({"_MAGTYPE", "_LSM9DS0_REGISTER_CTRL_REG2_M"})
                 THEN Invoke(_write_u8(Unbound("_MAGTYPE"),
                                       Unbound("_LSM9DS0_REGISTER_CTRL_REG2_M"), 12), 122, 0)
                 ELSE Raise("NameError")
              /\ log' = log
         [] Top.pc = 122 ->
              /\ Goto(124)
              /\ log' = Append(log, [op |-> "sleep", dev |-> "none", data |-> <<>>, ok |-> TRUE])
         [] Top.pc = 124 ->
              /\ Invoke(_read_u8(_XMTYPE, _LSM9DS0_REGISTER_WHO_AM_I_XM), 125, 0)
              /\ log' = log
         [] Top.pc = 125 ->
              /\ IF ret[1] # _LSM9DS0_XM_ID
                 THEN Raise("RuntimeError")
                 ELSE Invoke(_read_u8(_GYROTYPE, _LSM9DS0_REGISTER_WHO_AM_I_G), 126, 0)
              /\ log' = log
         [] Top.pc = 126 ->
              /\ IF ret[1] # _LSM9DS0_G_ID THEN Raise("RuntimeError") ELSE Goto(128)
              /\ log' = log
         [] Top.pc = 128 ->
              /\ Invoke(_write_u8(_XMTYPE, _LSM9DS0_REGISTER_CTRL_REG1_XM, 103), 129, 0)
              /\ log' = log
         [] Top.pc = 129 ->
              /\ Invoke(_write_u8(_XMTYPE, _LSM9DS0_REGISTER_CTRL_REG5_XM, 240), 131, 0)
              /\ log' = log
         [] Top.pc = 131 ->
              /\ Invoke(_write_u8(_XMTYPE, _LSM9DS0_REGISTER_CTRL_REG7_XM, 0), 133, 0)
              /\ log' = log
         [] Top.pc = 133 ->
              /\ Invoke(_write_u8(_GYROTYPE, _LSM9DS0_REGISTER_CTRL_REG1_G, 15), 135, 0)
              /\ log' = log
         [] Top.pc = 135 ->
              /\ Invoke(_read_u8(_XMTYPE, _LSM9DS0_REGISTER_CTRL_REG5_XM), 136, 0)
              /\ log' = log
         [] Top.pc = 136 ->
              /\ Invoke(_write_u8(_XMTYPE, _LSM9DS0_REGISTER_CTRL_REG5_XM,
                                  BitOr(ret[1], 128)), 138, ret[1])
              /\ log' = log
         [] Top.pc = 138 ->
              /\ CallMethod("accel_range.setter", 156, <<ACCELRANGE_2G>>, 139)
              /\ log' = log
         [] Top.pc = 139 ->
              /\ CallMethod("mag_gain.setter", 186, <<MAGGAIN_2GAUSS>>, 140)
              /\ log' = log
         [] Top.pc = 140 ->
              /\ CallMethod("gyro_scale.setter", 213, <<GYROSCALE_245DPS>>, 141)
              /\ log' = log
         [] Top.pc = 141 ->
              /\ Return(<<>>)
              /\ log' = log
    /\ UNCHANGED <<variant, mem, cache, BUFFER, held, prev, pre, calls>>

\* AccelRanges with every value of the three-bit field let through.
AccelRangesWide == {0, 8, 16, 24, 32, 40, 48, 56}

\* The tuples the setters' assert statements test val against (156-157,
\* 186-187, 213).
AccelRanges == {ACCELRANGE_2G, ACCELRANGE_4G, ACCELRANGE_6G, ACCELRANGE_8G, ACCELRANGE_16G}
MagGains == {MAGGAIN_2GAUSS, MAGGAIN_4GAUSS, MAGGAIN_8GAUSS, MAGGAIN_12GAUSS}
GyroScales == {GYROSCALE_245DPS, GYROSCALE_500DPS, GYROSCALE_2000DPS}

\* Lines 142-152.
accel_range ==
    /\ Running("accel_range")
    /\ CASE Top.pc = 151 -> Invoke(_read_u8(_XMTYPE, _LSM9DS0_REGISTER_CTRL_REG2_XM), 152, 0)
         [] Top.pc = 152 -> Return(<<BitAnd(BitAnd(ret[1], 56), 255)>>)
    /\ UNCHANGED <<variant, mem, cache, BUFFER, held, log, prev, pre, calls>>

\* Lines 154-171.
accel_range_setter ==
    /\ Running("accel_range.setter")
    /\ LET val == Top.val[1] IN
       CASE Top.pc = 156 ->
              /\ IF val \in AccelRanges
                 THEN Invoke(_read_u8(_XMTYPE, _LSM9DS0_REGISTER_CTRL_REG2_XM), 159, 0)
                 ELSE Raise("AssertionError")
              /\ cache' = cache
         [] Top.pc = 159 ->
              /\ LET reg == BitOr(ClearField(ret[1], 56), val) IN
                 Invoke(_write_u8(_XMTYPE, _LSM9DS0_REGISTER_CTRL_REG2_XM, reg), 162, reg)
              /\ cache' = cache
         [] Top.pc = 162 ->
              AfterChain(IfChain(val,
                                 << <<"_LSM9DS0_ACCELRANGE_2G", _LSM9DS0_ACCEL_MG_LSB_2G>>,
                                    <<"_LSM9DS0_ACCELRANGE_4G", _LSM9DS0_ACCEL_MG_LSB_4G>>,
                                    <<"_LSM9DS0_ACCELRANGE_6G", _LSM9DS0_ACCEL_MG_LSB_6G>>,
                                    <<"_LSM9DS0_ACCELRANGE_8G", _LSM9DS0_ACCEL_MG_LSB_8G>>,
                                    <<"_LSM9DS0_ACCELRANGE_16G", _LSM9DS0_ACCEL_MG_LSB_16G>> >>,
                                 1),
                         "accel")
    /\ UNCHANGED <<variant, mem, BUFFER, held, log, prev, pre, calls>>

\* Lines 173-182.
mag_gain ==
    /\ Running("mag_gain")
    /\ CASE Top.pc = 181 -> Invoke(_read_u8(_XMTYPE, _LSM9DS0_REGISTER_CTRL_REG6_XM), 182, 0)
         [] Top.pc = 182 -> Return(<<BitAnd(BitAnd(ret[1], 96), 255)>>)
    /\ UNCHANGED <<variant, mem, cache, BUFFER, held, log, prev, pre, calls>>

\* Lines 184-199.
mag_gain_setter ==
    /\ Running("mag_gain.setter")
    /\ LET val == Top.val[1] IN
       CASE Top.pc = 186 ->
              /\ IF val \in MagGains
                 THEN Invoke(_read_u8(_XMTYPE, _LSM9DS0_REGISTER_CTRL_REG6_XM), 189, 0)
                 ELSE Raise("AssertionError")
              /\ cache' = cache
         [] Top.pc = 189 ->
              /\ LET reg == BitOr(ClearField(ret[1], 96), val) IN
                 Invoke(_write_u8(_XMTYPE, _LSM9DS0_REGISTER_CTRL_REG6_XM, reg), 192, reg)
              /\ cache' = cache
         [] Top.pc = 192 ->
              AfterChain(IfChain(val,
                                 << <<"_LSM9DS0_MAGGAIN_2GAUSS", _LSM9DS0_MAG_MGAUSS_2GAUSS>>,
                                    <<"_LSM9DS0_MAGGAIN_4GAUSS", _LSM9DS0_MAG_MGAUSS_4GAUSS>>,
                                    <<"_LSM9DS0_MAGGAIN_8GAUSS", _LSM9DS0_MAG_MGAUSS_8GAUSS>>,
                                    <<"_LSM9DS0_MAGGAIN_12GAUSS", _LSM9DS0_MAG_MGAUSS_12GAUSS>> >>,
                                 1),
                         "mag")
    /\ UNCHANGED <<variant, mem, BUFFER, held, log, prev, pre, calls>>

\* Lines 201-209.
gyro_scale ==
    /\ Running("gyro_scale")
    /\ CASE Top.pc = 208 ->
              IF Resolves({"_GYROTYPE", "LSM9DS0_REGISTER_CTRL_REG4_G"})
              THEN Invoke(_read_u8(_GYROTYPE, Unbound("LSM9DS0_REGISTER_CTRL_REG4_G")), 209, 0)
              ELSE Raise("NameError")
         [] Top.pc = 209 -> Return(<<BitAnd(BitAnd(ret[1], 48), 255)>>)
    /\ UNCHANGED <<variant, mem, cache, BUFFER, held, log, prev, pre, calls>>

\* Lines 211-223.
gyro_scale_setter ==
    /\ Running("gyro_scale.setter")
    /\ LET val == Top.val[1] IN
       CASE Top.pc = 213 ->
              /\ IF val \notin GyroScales
                 THEN Raise("AssertionError")
                 ELSE IF Resolves({"_GYROTYPE", "LSM9DS0_REGISTER_CTRL_REG4_G"})
                 THEN Invoke(_read_u8(_GYROTYPE, Unbound("LSM9DS0_REGISTER_CTRL_REG4_G")),
                             215, 0)
                 ELSE Raise("NameError")
              /\ cache' = cache
         [] Top.pc = 215 ->
              /\ LET reg == BitOr(ClearField(ret[1], 48), val) IN
                 IF Resolves({"_GYROTYPE", "LSM9DS0_REGISTER_CTRL_REG4_G"})
                 THEN Invoke(_write_u8(_GYROTYPE, Unbound("LSM9DS0_REGISTER_CTRL_REG4_G"),
                                       reg), 218, reg)
                 ELSE Raise("NameError")
              /\ cache' = cache
         [] Top.pc = 218 ->
              AfterChain(IfChain(val,
                                 << <<"_LSM9DS0_GYROSCALE_245DPS", _LSM9DS0_GYRO_DPS_DIGIT_245DPS>>,
                                    <<"_LSM9DS0_GYROSCALE_500DPS", _LSM9DS0_GYRO_DPS_DIGIT_500DPS>>,
                                    <<"_LSM9DS0_GYROSCALE_2000DPS", _LSM9DS0_GYRO_DPS_DIGIT_2000DPS>> >>,
                                 1),
                         "gyro")
    /\ UNCHANGED <<variant, mem, BUFFER, held, log, prev, pre, calls>>

\* The three 16-bit values of lines 234-244 (and 264-274, 293-303).
Decode3(buf) == << Word16(buf[1], buf[2]), Word16(buf[3], buf[4]), Word16(buf[5], buf[6]) >>

\* Lines 225-244.
read_accel_raw ==
    /\ Running("read_accel_raw")
    /\ CASE Top.pc = 232 ->
              Invoke(_read_bytes(_XMTYPE, BitOr(128, _LSM9DS0_REGISTER_OUT_X_L_A), 6), 234, 0)
         [] Top.pc = 234 -> Return(Decode3(BUFFER))
    /\ UNCHANGED <<variant, mem, cache, BUFFER, held, log, prev, pre, calls>>

\* Lines 255-274.
read_mag_raw ==
    /\ Running("read_mag_raw")
    /\ CASE Top.pc = 262 ->
              Invoke(_read_bytes(_XMTYPE, BitOr(128, _LSM9DS0_REGISTER_OUT_X_L_M), 6), 264, 0)
         [] Top.pc = 264 -> Return(Decode3(BUFFER))
    /\ UNCHANGED <<variant, mem, cache, BUFFER, held, log, prev, pre, calls>>

\* Lines 284-303.
read_gyro_raw ==
    /\ Running("read_gyro_raw")
    /\ CASE Top.pc = 291 ->
              Invoke(_read_bytes(_GYROTYPE, BitOr(128, _LSM9DS0_REGISTER_OUT_X_L_G), 6), 293, 0)
         [] Top.pc = 293 -> Return(Decode3(BUFFER))
    /\ UNCHANGED <<variant, mem, cache, BUFFER, held, log, prev, pre, calls>>

\* read_temp_raw with the auto-increment bit left off the base address.
read_temp_raw_single_byte_address ==
    /\ Running("read_temp_raw")
    /\ CASE Top.pc = 319 ->
              Invoke(_read_bytes(_XMTYPE, _LSM9DS0_REGISTER_TEMP_OUT_L_XM, 2), 321, 0)
         [] Top.pc = 321 -> Return(<<BitOr(BUFFER[2] * 256, BUFFER[1])>>)
    /\ UNCHANGED <<variant, mem, cache, BUFFER, held, log, prev, pre, calls>>

\* Lines 313-322.
read_temp_raw ==
    /\ Running("read_temp_raw")
    /\ CASE Top.pc = 319 ->
              Invoke(_read_bytes(_XMTYPE, BitOr(128, _LSM9DS0_REGISTER_TEMP_OUT_L_XM), 2), 321, 0)
         [] Top.pc = 321 -> Return(<<BitOr(BUFFER[2] * 256, BUFFER[1])>>)
    /\ UNCHANGED <<variant, mem, cache, BUFFER, held, log, prev, pre, calls>>

\* map(lambda x: ..., raw) over an attribute of self, as the caller receives it
\* on reading the values: reading an attribute never assigned raises
\* AttributeError.
Scaled(raw, attr, k) ==
    IF cache[attr] = <<>> THEN Raise("AttributeError")
    ELSE Return([i \in 1..Len(raw) |-> raw[i] * cache[attr][1] * k])

\* Lines 246-253.  The result is in units of 1e-11 m/s^2.
accelerometer ==
    /\ Running("accelerometer")
    /\ CASE Top.pc = 251 -> CallMethod("read_accel_raw", 232, <<>>, 252)
         [] Top.pc = 252 -> Scaled(ret, "accel", 980665)
    /\ UNCHANGED <<variant, mem, cache, BUFFER, held, log, prev, pre, calls>>

\* Lines 276-282.  The result is in units of 1e-5 gauss.
magnetometer ==
    /\ Running("magnetometer")
    /\ CASE Top.pc = 281 -> CallMethod("read_mag_raw", 262, <<>>, 282)
         [] Top.pc = 282 -> Scaled(ret, "mag", 1)
    /\ UNCHANGED <<variant, mem, cache, BUFFER, held, log, prev, pre, calls>>

\* Lines 305-311.  The result is in units of 1e-5 degrees/second.
gyroscope ==
    /\ Running("gyroscope")
    /\ CASE Top.pc = 310 -> CallMethod("read_mag_raw", 262, <<>>, 311)
         [] Top.pc = 311 -> Scaled(ret, "gyro", 1)
    /\ UNCHANGED <<variant, mem, cache, BUFFER, held, log, prev, pre, calls>>

\* temperature with temp/8 taken as a floor division.
temperature_floor_division ==
    /\ Running("temperature")
    /\ CASE Top.pc = 328 -> CallMethod("read_temp_raw", 319, <<>>, 329)
         [] Top.pc = 329 -> Return(<<21 * 8 + (ret[1] \div 8) * 8>>)
    /\ UNCHANGED <<variant, mem, cache, BUFFER, held, log, prev, pre, calls>>

\* Lines 324-330.  The result is in units of 1/8 degree Celsius.
temperature ==
    /\ Running("temperature")
    /\ CASE Top.pc = 328 -> CallMethod("read_temp_raw", 319, <<>>, 329)
         [] Top.pc = 329 -> Return(<<21 * 8 + ret[1]>>)
    /\ UNCHANGED <<variant, mem, cache, BUFFER, held, log, prev, pre, calls>>

\* ----------------------------------------------------- sub-class constructors

\* The caller's construction begins: a top-level call of its own.
Constructing(v, made) ==
    /\ variant = "none"
    /\ state = "Uninitialized"
    /\ stack = <<>>
    /\ log' = <<>>
    /\ prev' = Summary(outcome)
    /\ IF made
       THEN /\ variant' = v
            /\ stack' = <<Frame("__init__", 119, <<>>)>>
            /\ outcome' = NoOutcome
            /\ state' = state
       ELSE /\ variant' = variant
            /\ stack' = <<>>
            /\ outcome' = [fn |-> "__init__", arg |-> <<>>,
                           kind |-> IF v = "I2C" THEN TransportError ELSE "AttributeError",
                           value |-> <<>>]
            /\ state' = "Failed"
    /\ pre' = [mem |-> mem, cache |-> cache]
    /\ UNCHANGED <<mem, cache, BUFFER, held, call, ret, calls>>

\* Lines 356-359.  i2c_device.I2CDevice(i2c, address) is the bus package's: it
\* makes the handle or raises; with both handles assigned, LSM9DS0.__init__
\* runs.
LSM9DS0_I2C_init == \E made \in BOOLEAN : Constructing("I2C", made)

\* Lines 395-398.  spi_device.I2CDevice is looked up in the bus package's SPI
\* module: the lookup and the call make the handle or raise.
LSM9DS0_SPI_init == \E made \in BOOLEAN : Constructing("SPI", made)

\* ------------------------------------------------------------- the caller

\* The public methods and properties, each with its first line.
EntryPoints ==
    { <<"accel_range", 151>>, <<"mag_gain", 181>>, <<"gyro_scale", 208>>,
      <<"read_accel_raw", 232>>, <<"read_mag_raw", 262>>, <<"read_gyro_raw", 291>>,
      <<"read_temp_raw", 319>>, <<"accelerometer", 251>>, <<"magnetometer", 281>>,
      <<"gyroscope", 310>>, <<"temperature", 328>> }

SetterEntryPoints ==
    { <<"accel_range.setter", 156>>, <<"mag_gain.setter", 186>>, <<"gyro_scale.setter", 213>> }

\* The caller starts a top-level call of the method e with argument val.
Begin(e, val) ==
    /\ variant # "none"
    /\ stack = <<>>
    /\ calls < MaxCalls
    /\ stack' = <<Frame(e[1], e[2], val)>>
    /\ log' = <<>>
    /\ prev' = Summary(outcome)
    /\ outcome' = NoOutcome
    /\ pre' = [mem |-> mem, cache |-> cache]
    /\ calls' = calls + 1
    /\ UNCHANGED <<variant, state, mem, cache, BUFFER, held, call, ret>>

Call == \E e \in EntryPoints : Begin(e, <<>>)

CallSetter == \E e \in SetterEntryPoints, val \in SetterInputs : Begin(e, <<val>>)

Next ==
    \/ LSM9DS0_I2C_init
    \/ LSM9DS0_SPI_init
    \/ LSM9DS0_init
    \/ Call
    \/ CallSetter
    \/ accel_range
    \/ accel_range_setter
    \/ mag_gain
    \/ mag_gain_setter
    \/ gyro_scale
    \/ gyro_scale_setter
    \/ read_accel_raw
    \/ read_mag_raw
    \/ read_gyro_raw
    \/ read_temp_raw
    \/ accelerometer
    \/ magnetometer
    \/ gyroscope
    \/ temperature
    \/ I2C_read_u8
    \/ I2C_read_bytes
    \/ I2C_write_u8
    \/ SPI_read_u8
    \/ SPI_read_bytes
    \/ SPI_write_u8

Spec == Init /\ [][Next]_vars

\* ------------------------------------------- the primitives called directly

\* The addresses a caller hands to a primitive: register addresses with bit 7
\* clear and set, the extremes, and one wider than eight bits.
Addresses == {0, 40, 168, 255, 296}

\* The values a caller hands to _write_u8, and the counts to _read_bytes.
Values == {165}
Counts == {6}

\* The three primitives of a binding (lines 361-390, 400-432) and the call
\* record of each for given arguments.
Primitives == {"_read_u8", "_read_bytes", "_write_u8"}

PrimitiveCall(fn, sensor_type, address, count, val) ==
    IF fn = "_read_u8" THEN _read_u8(sensor_type, address)
    ELSE IF fn = "_read_bytes" THEN _read_bytes(sensor_type, address, count)
    ELSE _write_u8(sensor_type, address, val)

\* A caller invokes a primitive of the binding with arguments of its own.
CallPrimitive ==
    \E fn \in Primitives, sensor_type \in {_GYROTYPE, _XMTYPE}, address \in Addresses,
       count \in Counts, val \in Values :
        /\ variant # "none"
        /\ stack = <<>>
        /\ calls < MaxCalls
        /\ stack' = <<Frame(fn, 0, <<address>>)>>
        /\ call' = PrimitiveCall(fn, sensor_type, address, count, val)
        /\ log' = <<>>
        /\ prev' = Summary(outcome)
        /\ outcome' = NoOutcome
        /\ pre' = [mem |-> mem, cache |-> cache]
        /\ calls' = calls + 1
        /\ UNCHANGED <<variant, state, mem, cache, BUFFER, held, ret>>

\* The primitive has returned: its caller has the result.
PrimitiveReturns ==
    /\ stack # <<>>
    /\ Top.fn \in Primitives
    /\ call.fn = "none"
    /\ Return(ret)
    /\ UNCHANGED <<variant, mem, cache, BUFFER, held, log, prev, pre, calls>>

NextTransport ==
    \/ LSM9DS0_I2C_init
    \/ LSM9DS0_SPI_init
    \/ LSM9DS0_init
    \/ CallPrimitive
    \/ PrimitiveReturns
    \/ I2C_read_u8
    \/ I2C_read_bytes
    \/ I2C_write_u8
    \/ SPI_read_u8
    \/ SPI_read_bytes
    \/ SPI_write_u8

SpecTransport == Init /\ [][NextTransport]_vars

\* ------------------------------------------------- a second sensor instance

\* _BUFFER is an attribute of the class LSM9DS0 (line 115): every instance,
\* of either binding, reads and writes the same bytearray.  A second
\* instance runs a burst read of its own as one bus transaction, between two
\* transactions of this instance's operation: its bytes land in the buffer.
OtherInstanceReadBytes ==
    /\ stack # <<>>
    /\ call.fn = "none"
    /\ held = "none"
    /\ \E data \in Samples6 \cup Samples2 : BUFFER' = Filled(BUFFER, data)
    /\ BUFFER' # BUFFER
    /\ UNCHANGED <<variant, state, mem, cache, held, stack, call, ret, log,
                   outcome, prev, pre, calls>>

\* The getters and raw reads, each with its first line.
ReadEntryPoints ==
    { e \in EntryPoints :
        e[1] \in { "accel_range", "mag_gain", "read_accel_raw", "read_mag_raw",
                   "read_gyro_raw", "read_temp_raw" } }

CallRead == \E e \in ReadEntryPoints : Begin(e, <<>>)

NextTwoInstances ==
    \/ LSM9DS0_I2C_init
    \/ LSM9DS0_SPI_init
    \/ LSM9DS0_init
    \/ CallRead
    \/ accel_range
    \/ mag_gain
    \/ read_accel_raw
    \/ read_mag_raw
    \/ read_gyro_raw
    \/ read_temp_raw
    \/ I2C_read_u8
    \/ I2C_read_bytes
    \/ SPI_read_u8
    \/ SPI_read_bytes
    \/ OtherInstanceReadBytes

SpecTwoInstances == Init /\ [][NextTwoInstances]_vars

\* ======================================================================
\* The claims
\* ======================================================================

\* The top-level call of fn has ended, by a return or by an exception.
Ended(fn) == stack = <<>> /\ outcome.fn = fn

\* The three range settings: setter, getter, cache attribute, control
\* register, bit field, and the scale factor of each enumerated value.
Settings ==
    { [name |-> "accel", setter |-> "accel_range.setter", getter |-> "accel_range",
       key |-> <<"xm", _LSM9DS0_REGISTER_CTRL_REG2_XM>>, mask |-> 56,
       table |-> (ACCELRANGE_2G :> _LSM9DS0_ACCEL_MG_LSB_2G) @@
                 (ACCELRANGE_4G :> _LSM9DS0_ACCEL_MG_LSB_4G) @@
                 (ACCELRANGE_6G :> _LSM9DS0_ACCEL_MG_LSB_6G) @@
                 (ACCELRANGE_8G :> _LSM9DS0_ACCEL_MG_LSB_8G) @@
                 (ACCELRANGE_16G :> _LSM9DS0_ACCEL_MG_LSB_16G)],
      [name |-> "mag", setter |-> "mag_gain.setter", getter |-> "mag_gain",
       key |-> <<"xm", _LSM9DS0_REGISTER_CTRL_REG6_XM>>, mask |-> 96,
       table |-> (MAGGAIN_2GAUSS :> _LSM9DS0_MAG_MGAUSS_2GAUSS) @@
                 (MAGGAIN_4GAUSS :> _LSM9DS0_MAG_MGAUSS_4GAUSS) @@
                 (MAGGAIN_8GAUSS :> _LSM9DS0_MAG_MGAUSS_8GAUSS) @@
                 (MAGGAIN_12GAUSS :> _LSM9DS0_MAG_MGAUSS_12GAUSS)],
      [name |-> "gyro", setter |-> "gyro_scale.setter", getter |-> "gyro_scale",
       key |-> <<"gyro", _LSM9DS0_REGISTER_CTRL_REG4_G>>, mask |-> 48,
       table |-> (GYROSCALE_245DPS :> _LSM9DS0_GYRO_DPS_DIGIT_245DPS) @@
                 (GYROSCALE_500DPS :> _LSM9DS0_GYRO_DPS_DIGIT_500DPS) @@
                 (GYROSCALE_2000DPS :> _LSM9DS0_GYRO_DPS_DIGIT_2000DPS)] }

\* The bit field of setting s as the device register m holds it.
FieldIn(m, s) == BitAnd(m[s.key], s.mask)

\* Every device operation of the current call succeeded.
NoBusFailure == \A i \in 1..Len(log) : log[i].ok

\* The current call wrote a device register.
WroteRegister ==
    \E i \in 1..Len(log) : log[i].op = "write" /\ Len(log[i].data) = 2 /\ log[i].ok

\* The identity registers hold the LSM9DS0's values.
IdsMatch ==
    /\ mem[<<"xm", _LSM9DS0_REGISTER_WHO_AM_I_XM>>] = _LSM9DS0_XM_ID
    /\ mem[<<"gyro", _LSM9DS0_REGISTER_WHO_AM_I_G>>] = _LSM9DS0_G_ID

\* The construction got its two device handles and ran LSM9DS0.__init__ to
\* its end, by a return or by an exception.
Constructed == Ended("__init__") /\ variant # "none"

\* C1: for each range setting and every enumerated value v, set(v) followed
\* by get() returns v, whatever the register held before (no bus failure in
\* either call).
C1_SetThenGetRoundTrips ==
    \A s \in Settings :
        ( /\ Ended(s.getter)
          /\ prev.fn = s.setter
          /\ prev.arg[1] \in DOMAIN s.table
          /\ prev.kind # TransportError
          /\ outcome.kind # TransportError )
        => (outcome.kind = "ok" /\ outcome.value = prev.arg)

\* C2: once a setter call has written its control register, the cached
\* scale factor of that setting equals the table value of the field code
\* the register holds.
C2_CacheMatchesRegister ==
    \A s \in Settings :
        (Ended(s.setter) /\ WroteRegister)
        => ( /\ FieldIn(mem, s) \in DOMAIN s.table
             /\ cache[s.name] = <<s.table[FieldIn(mem, s)]>> )

\* C3: set(v) with v outside the setting's enumerated set fails with the
\* invalid-argument error (the assert's AssertionError) before any device
\* operation, and leaves every device register and every cached scale
\* factor as the call found them.
C3_InvalidSetRejected ==
    \A s \in Settings :
        (Ended(s.setter) /\ outcome.arg[1] \notin DOMAIN s.table)
        => ( /\ outcome.kind = "AssertionError"
             /\ log = <<>>
             /\ mem = pre.mem
             /\ cache = pre.cache )

\* C3's case: after accel_range = ACCELRANGE_4G wrote the register, the
\* in-field value 0x30 that no range enumerates is rejected.
C3_Witness ==
    /\ Ended("accel_range.setter")
    /\ outcome.arg = <<48>>
    /\ outcome.kind = "AssertionError"
    /\ prev.fn = "accel_range.setter"
    /\ prev.arg = <<ACCELRANGE_4G>>
    /\ BitAnd(mem[<<"xm", _LSM9DS0_REGISTER_CTRL_REG2_XM>>], 56) = ACCELRANGE_4G

\* C4: with both device handles made and no bus failure, construction fails
\* with the device-not-found error (the RuntimeError of line 126) exactly
\* when one of the two identity registers holds another value than expected.
C4_DeviceNotFoundOnMismatch ==
    (Constructed /\ NoBusFailure)
    => (outcome.kind = "RuntimeError" <=> ~IdsMatch)

\* The device operations of the current call other than the SPI link
\* configuration.
BusOps == SelectSeq(log, LAMBDA e : e.op # "configure")

\* C5: a construction that ends without a bus failure began with the two
\* soft-reset register writes and the settle delay, in that order, and wrote
\* no further register before it had read both identity registers.
C5_InitOrder ==
    (Constructed /\ NoBusFailure)
    => ( /\ Len(BusOps) >= 3
         /\ BusOps[1].op = "write" /\ Len(BusOps[1].data) = 2
         /\ BusOps[2].op = "write" /\ Len(BusOps[2].data) = 2
         /\ BusOps[3].op = "sleep"
         /\ \A i \in 4..Len(BusOps) :
              (BusOps[i].op = "write" /\ Len(BusOps[i].data) = 2)
              => Cardinality({j \in 4..(i - 1) : BusOps[j].op = "readinto"}) >= 2 )

\* C6: with matching identity registers and no bus failure, construction
\* completes: the sensor is Ready, the three fields hold the 2G, 2-gauss and
\* 245-dps codes and the three cached scale factors their table values.
C6_ReadyWithDefaults ==
    (Constructed /\ NoBusFailure /\ IdsMatch)
    => ( /\ state = "Ready"
         /\ outcome.kind = "ok"
         /\ \A s \in Settings : FieldIn(mem, s) = 0
         /\ cache = [accel |-> <<_LSM9DS0_ACCEL_MG_LSB_2G>>,
                     mag |-> <<_LSM9DS0_MAG_MGAUSS_2GAUSS>>,
                     gyro |-> <<_LSM9DS0_GYRO_DPS_DIGIT_245DPS>>] )

\* The output registers each physical-unit accessor is to read: the device
\* and the base register address.
OwnSource ==
    [accelerometer |-> <<"xm", _LSM9DS0_REGISTER_OUT_X_L_A>>,
     magnetometer |-> <<"xm", _LSM9DS0_REGISTER_OUT_X_L_M>>,
     gyroscope |-> <<"gyro", _LSM9DS0_REGISTER_OUT_X_L_G>>,
     temperature |-> <<"xm", _LSM9DS0_REGISTER_TEMP_OUT_L_XM>>]

\* The device and register the current call's first transaction addressed.
Addressed == LET w == BusOps[1] IN <<w.dev, RegisterOf(w.data[1])>>

\* C7: each physical-unit accessor reads its raw sample from its own
\* sensor's output registers.
C7_AccessorReadsOwnSensor ==
    \A a \in DOMAIN OwnSource :
        (Ended(a) /\ BusOps # <<>>) => Addressed = OwnSource[a]

\* The bytes the bus delivered to the current call's burst read.
Delivered == log[Len(log)].data

\* C8: a raw read that returns gives three values (read_temp_raw: one), each
\* in 0..65535 and equal to low byte + 256 * high byte of its byte pair of
\* the bytes the bus delivered.
C8_RawReadsDecodeLittleEndian ==
    \A fn \in {"read_accel_raw", "read_mag_raw", "read_gyro_raw", "read_temp_raw"} :
        (Ended(fn) /\ outcome.kind = "ok")
        => ( /\ Len(outcome.value) = (IF fn = "read_temp_raw" THEN 1 ELSE 3)
             /\ Len(Delivered) = 2 * Len(outcome.value)
             /\ \A i \in 1..Len(outcome.value) :
                  /\ outcome.value[i] \in 0..65535
                  /\ outcome.value[i] = Delivered[2 * i - 1] + 256 * Delivered[2 * i] )

\* C8's case: the bytes 0x34 0x12 0xFF 0xFF 0x00 0x00 decode to 0x1234,
\* 65535 and 0.
C8_Witness ==
    /\ Ended("read_gyro_raw")
    /\ outcome.kind = "ok"
    /\ Delivered = <<52, 18, 255, 255, 0, 0>>
    /\ outcome.value = <<4660, 65535, 0>>

\* C9: in both variants the bus acquisition is in scope only while a
\* primitive runs: once the primitive has returned or failed, it is released.
C9_BusReleasedOnEveryExit == call.fn = "none" => held = "none"

\* C9's case: a primitive of the SPI variant whose readinto failed after its
\* address write went through, and the bus is free.
C9_Witness ==
    /\ variant = "SPI"
    /\ stack = <<>>
    /\ outcome.kind = TransportError
    /\ Len(log) >= 3
    /\ log[Len(log)].op = "readinto" /\ ~log[Len(log)].ok
    /\ log[Len(log) - 1].op = "write" /\ log[Len(log) - 1].ok
    /\ held = "none"

\* C10: a failed device operation is the last one of its call: the call has
\* ended with the transport error and without a value.
C10_BusFailurePropagates ==
    \A i \in 1..Len(log) :
        ~log[i].ok
        => ( /\ i = Len(log)
             /\ stack = <<>>
             /\ call.fn = "none"
             /\ outcome.kind = TransportError
             /\ outcome.value = <<>> )

\* C10's case: a setter whose register write failed after its register read
\* went through.
C10_Witness ==
    /\ Ended("mag_gain.setter")
    /\ outcome.kind = TransportError
    /\ Len(BusOps) = 3
    /\ BusOps[2].op = "readinto" /\ BusOps[2].ok
    /\ BusOps[3].op = "write" /\ ~BusOps[3].ok
    /\ mem = pre.mem

\* C11: the temperature accessor returns 21.0 + raw/8 degrees Celsius for
\* the raw value its burst read delivered (low byte + 256 * high byte): in
\* eighths of a degree, 168 + raw, with no rounding.
C11_TemperatureIs21PlusRawOver8 ==
    (Ended("temperature") /\ outcome.kind = "ok")
    => ( /\ Len(Delivered) = 2
         /\ outcome.value = <<21 * 8 + (Delivered[1] + 256 * Delivered[2])>> )

\* C11's case: raw 200 gives 46.0 degrees exactly (368 eighths).
C11_Witness ==
    /\ Ended("temperature")
    /\ outcome.kind = "ok"
    /\ Delivered = <<200, 0>>
    /\ outcome.value = <<46 * 8>>

\* The burst read each raw-read is to perform: the sub-device, the base
\* register address and the byte count.
BurstOf ==
    [read_accel_raw |-> [dev |-> "xm", base |-> 40, count |-> 6],
     read_mag_raw |-> [dev |-> "xm", base |-> 8, count |-> 6],
     read_gyro_raw |-> [dev |-> "gyro", base |-> 40, count |-> 6],
     read_temp_raw |-> [dev |-> "xm", base |-> 5, count |-> 2]]

\* C12: a raw-read call performs one bus transaction and no more: the write
\* of the address byte base + 0x80 to its sub-device, then one read of its
\* byte count from the same sub-device.  A call that returns performed both;
\* a call that a bus failure ended performed no operation after the failure.
C12_RawReadIsOneBurstRead ==
    \A fn \in DOMAIN BurstOf :
        Ended(fn)
        => LET b == BurstOf[fn] IN
           /\ Len(BusOps) <= 2
           /\ outcome.kind = "ok" => Len(BusOps) = 2
           /\ Len(BusOps) >= 1
              => ( /\ BusOps[1].op = "write"
                   /\ BusOps[1].dev = b.dev
                   /\ BusOps[1].data = <<b.base + 128>> )
           /\ Len(BusOps) = 2
              => ( /\ BusOps[1].ok
                   /\ BusOps[2].op = "readinto"
                   /\ BusOps[2].dev = b.dev
                   /\ BusOps[2].ok => Len(BusOps[2].data) = b.count )

\* C12's case: read_temp_raw returned after writing the address byte 0x85 to
\* the accel/mag sub-device and reading two bytes from it.
C12_Witness ==
    /\ Ended("read_temp_raw")
    /\ outcome.kind = "ok"
    /\ BusOps[1].data = <<133>>
    /\ BusOps[2].dev = "xm"
    /\ Len(BusOps[2].data) = 2

\* The bits of setting s's control register outside its bit field.
OutsideField(m, s) == m[s.key] - FieldIn(m, s)

Tags == {_GYROTYPE, _XMTYPE}

\* The running primitive carries a sensor-type tag and works on the handle
\* the tag selects: the Gyro handle for Gyro, the AccelMagTemp handle
\* otherwise.
PrimitiveOnTaggedHandle ==
    call.fn # "none"
    => ( /\ call.sensor_type \in Tags
         /\ held \in {"none", IF call.sensor_type = _GYROTYPE THEN "gyro" ELSE "xm"} )

\* C14: every transport call carries a sensor-type tag and runs on the handle
\* it selects, and that includes the two soft-reset writes: a construction
\* that no bus failure ended began with two register writes, each on one of
\* the two sub-device handles.
C14_TaggedTransportCalls ==
    /\ PrimitiveOnTaggedHandle
    /\ (Constructed /\ NoBusFailure)
       => ( /\ Len(BusOps) >= 2
            /\ \A i \in 1..2 :
                 /\ BusOps[i].op = "write"
                 /\ Len(BusOps[i].data) = 2
                 /\ BusOps[i].dev \in Devices )

\* The primitive of the current or last top-level call, and the address it
\* was given.
PrimitiveCalled == IF stack # <<>> THEN stack[1].fn ELSE outcome.fn
AddressGiven == IF stack # <<>> THEN stack[1].val[1] ELSE outcome.arg[1]

\* C15: the address byte a primitive sends.  SPI: the low seven bits of the
\* address given, with bit 7 set by _read_u8 and _read_bytes and clear in
\* _write_u8.  I2C: the low eight bits of the address given, for reads and
\* writes alike.
C15_AddressByteOnTheBus ==
    \A i \in 1..Len(log) :
        (PrimitiveCalled \in Primitives /\ log[i].op = "write")
        => log[i].data[1] =
             IF variant = "I2C" THEN AddressGiven % 256
             ELSE IF PrimitiveCalled = "_write_u8" THEN AddressGiven % 128
             ELSE (AddressGiven % 128) + 128

\* C15's case: the SPI _write_u8 given the address 0xA8 has sent 0x28.
C15_Witness ==
    /\ variant = "SPI"
    /\ PrimitiveCalled = "_write_u8"
    /\ AddressGiven = 168
    /\ Len(log) = 2
    /\ log[2].op = "write" /\ log[2].ok
    /\ log[2].data[1] = 40

Readers ==
    { "accel_range", "mag_gain", "gyro_scale",
      "read_accel_raw", "read_mag_raw", "read_gyro_raw", "read_temp_raw",
      "accelerometer", "magnetometer", "gyroscope", "temperature" }

\* C17: a call of a getter, a raw read or an accessor, while it runs and when
\* it has ended, has sent no register write (a write of an address byte and
\* a value), and every device register and every cached scale factor is as
\* the call found it.
C17_ReadersWriteNothing ==
    LET fn == IF stack # <<>> THEN stack[1].fn ELSE outcome.fn IN
    fn \in Readers
    => ( /\ \A i \in 1..Len(log) : ~(log[i].op = "write" /\ Len(log[i].data) = 2)
         /\ mem = pre.mem
         /\ cache = pre.cache )

\* C17's case: the getter mag_gain has read back the 8-gauss code a setter
\* call wrote before it, and left the registers as it found them.
C17_Witness ==
    /\ Ended("mag_gain")
    /\ outcome.kind = "ok"
    /\ outcome.value = <<MAGGAIN_8GAUSS>>
    /\ prev.fn = "mag_gain.setter"
    /\ Len(BusOps) = 2
    /\ mem = pre.mem

\* A register getter's value is the field of the byte its own transaction
\* delivered.
GetterReadsOwnByte ==
    \A s \in Settings :
        (Ended(s.getter) /\ outcome.kind = "ok")
        => outcome.value = <<BitAnd(Delivered[1], s.mask)>>

\* A raw read's values are the byte pairs its own transaction delivered.
RawReadDecodesOwnBytes ==
    \A fn \in DOMAIN BurstOf :
        (Ended(fn) /\ outcome.kind = "ok")
        => outcome.value =
             [i \in 1..(BurstOf[fn].count \div 2) |->
                Delivered[2 * i - 1] + 256 * Delivered[2 * i]]

\* C18: with a second instance's bus transactions interleaved between this
\* instance's, every register read and raw read returns what its own
\* transaction delivered.
C18_DecodesOwnBytes == GetterReadsOwnByte /\ RawReadDecodesOwnBytes

\* C19: a construction with matching identity registers and no bus failure
\* succeeds and leaves CTRL_REG1_XM = 0x67, CTRL_REG7_XM = 0x00,
\* CTRL_REG1_G = 0x0F and CTRL_REG5_XM = 0xF0, bit 7 set and the bits
\* written before it kept.
C19_EnablingRegisters ==
    (Constructed /\ NoBusFailure /\ IdsMatch)
    => ( /\ outcome.kind = "ok"
         /\ mem[<<"xm", _LSM9DS0_REGISTER_CTRL_REG1_XM>>] = 103
         /\ mem[<<"xm", _LSM9DS0_REGISTER_CTRL_REG7_XM>>] = 0
         /\ mem[<<"gyro", _LSM9DS0_REGISTER_CTRL_REG1_G>>] = 15
         /\ mem[<<"xm", _LSM9DS0_REGISTER_CTRL_REG5_XM>>] = 240 )

====
